---- MODULE Spec2Model ----
(***************************************************************************)
(* Loan management service: the FastAPI handlers of app/main.py over the   *)
(* "loans" table of app/models.py, validated by the pydantic schemas of    *)
(* app/schemas.py, and the requests-based client of client/loan_client.py. *)
(*                                                                         *)
(* A request is handled in one step (Spec) or, for two concurrent updates, *)
(* in the steps of the ORM session: query, flush+commit, refresh           *)
(* (SpecConc).                                                             *)
(***************************************************************************)
EXTENDS Integers, Sequences, FiniteSets, TLC

VARIABLES
    loans,   \* the rows of table "loans", in rowid (primary key) order
    req,     \* the HTTP request being answered, NoReq when the server is idle
    resp,    \* the HTTP response to req, NoResp when idle or never reached
    cli,     \* what the LoanClient method that sent req did: return or raise
    txn      \* SpecConc: the two in-flight update requests and their sessions

vars == <<loans, req, resp, cli, txn>>

(***************************************************************************)
(* Bounds and sample inputs                                                *)
(***************************************************************************)
MaxId == 2      \* primary keys range over 1..MaxId; request ids over 1..MaxId+1
MaxPage == 2    \* explicit skip and limit range over 0..MaxPage

AmountIn == {0, 1, 2}
RateIn == {-1, 0, 1}
MonthsIn == {0, 1}
PaymentIn == {0, 1}
ExtraIdIn == {1}

(***************************************************************************)
(* JSON values: a key of a body is unset (absent), null, or a number       *)
(***************************************************************************)
Unset == [t |-> "unset"]
Null == [t |-> "null"]
Num(n) == [t |-> "num", v |-> n]
IsNum(x) == x.t = "num"

Slots(S) == {Unset, Null} \cup {Num(n) : n \in S}

Fields == {"amount", "interest_rate", "length_months", "monthly_payment"}
Columns == Fields \cup {"id"}

Payloads ==
    [amount : Slots(AmountIn), interest_rate : Slots(RateIn),
     length_months : Slots(MonthsIn), monthly_payment : Slots(PaymentIn),
     id : {Unset} \cup {Num(n) : n \in ExtraIdIn}]

NoPayload ==
    [amount |-> Unset, interest_rate |-> Unset, length_months |-> Unset,
     monthly_payment |-> Unset, id |-> Unset]

SetMin(S) == CHOOSE x \in S : \A y \in S : x <= y
Min2(a, b) == IF a <= b THEN a ELSE b

(***************************************************************************)
(* app/schemas.py                                                          *)
(***************************************************************************)
\* the bound of every field written ge=0
FieldOk_ge(k, n) == n >= 0

\* Field(..., gt=0) on amount, length_months, monthly_payment; ge=0 on interest_rate
FieldOk(k, n) == IF k = "interest_rate" THEN n >= 0 ELSE n > 0

\* LoanCreate: every field required, a number, within its bound
LoanCreateErrors(p) ==
    {k \in Fields : ~IsNum(p[k]) \/ ~FieldOk(k, p[k].v)}

\* LoanUpdate: every field float|None with default None; a number must be within its bound
LoanUpdateErrors(p) ==
    {k \in Fields : IsNum(p[k]) /\ ~FieldOk(k, p[k].v)}

\* LoanCreate.model_dump(): the four declared fields (extra keys are ignored)
LoanCreateDump(p) == [k \in Fields |-> p[k]]

\* a schema that keeps extra keys: the dump carries the body's id key as well
LoanUpdateDump_extra(p) == [k \in {f \in Columns : p[f] # Unset} |-> p[k]]

\* LoanUpdate.model_dump(exclude_unset=True): the declared fields the body named
LoanUpdateDump(p) == [k \in {f \in Fields : p[f] # Unset} |-> p[k]]

\* LoanResponse: LoanBase plus id: int, read from the ORM row (from_attributes)
LoanResponseOk(row) ==
    /\ IsNum(row["id"])
    /\ \A k \in Fields : IsNum(row[k]) /\ FieldOk(k, row[k].v)

(***************************************************************************)
(* app/models.py: table "loans"                                            *)
(***************************************************************************)
\* a row gives each column a number or NULL
Ids(tbl) == {tbl[j]["id"].v : j \in 1..Len(tbl)}

\* id = Column(Integer, primary_key=True): the store assigns a key above every live key
NewIds(tbl) == {i \in 1..MaxId : \A j \in Ids(tbl) : i > j}

\* query(Loan).filter(Loan.id == loan_id).first(): position of the row, 0 for None
QueryFirst(tbl, loan_id) ==
    LET m == {j \in 1..Len(tbl) : tbl[j]["id"] = Num(loan_id)}
    IN  IF m = {} THEN 0 ELSE SetMin(m)

RowOf(tbl, loan_id) == tbl[QueryFirst(tbl, loan_id)]

\* for key, value in update_data.items(): setattr(db_loan, key, value)
SetAttrs(obj, update_data) ==
    [k \in Columns |-> IF k \in DOMAIN update_data THEN update_data[k] ELSE obj[k]]

\* the session's unit of work at flush: the attributes with a net change, that is
\* whose value differs from the one the session loaded; setattr of the loaded
\* value leaves the column out of the UPDATE
Dirty(loaded, obj) == {k \in Columns : obj[k] # loaded[k]}

\* the UPDATE on a table whose columns are nullable
Flush_nullable(tbl, loaded, obj) ==
    LET d == Dirty(loaded, obj)
        j == QueryFirst(tbl, loaded["id"].v)
    IN  IF d = {} THEN [error |-> "none", loans |-> tbl]
        ELSE IF j = 0 THEN [error |-> "stale", loans |-> tbl]
        ELSE [error |-> "none",
              loans |-> [tbl EXCEPT ![j] =
                            [k \in Columns |-> IF k \in d THEN obj[k] ELSE tbl[j][k]]]]

\* UPDATE loans SET <dirty columns> WHERE id = <loaded id>, under the table's
\* constraints (nullable=False on every column, primary key unique).
\* "stale" when the row is gone, "integrity" when a constraint fails.
Flush(tbl, loaded, obj) ==
    LET d == Dirty(loaded, obj)
        j == QueryFirst(tbl, loaded["id"].v)
    IN  IF d = {} THEN [error |-> "none", loans |-> tbl]
        ELSE IF j = 0 THEN [error |-> "stale", loans |-> tbl]
        ELSE IF \E k \in d : ~IsNum(obj[k]) THEN [error |-> "integrity", loans |-> tbl]
        ELSE IF "id" \in d /\ obj["id"].v \in Ids(tbl)
             THEN [error |-> "integrity", loans |-> tbl]
        ELSE [error |-> "none",
              loans |-> [tbl EXCEPT ![j] =
                            [k \in Columns |-> IF k \in d THEN obj[k] ELSE tbl[j][k]]]]

\* SELECT ... FROM loans without ORDER BY: the rows in primary key order
Scan(tbl) == tbl

\* db.add(db_loan); db.commit(): INSERT under nullable=False
Insert(tbl, row) ==
    IF \E k \in Columns : ~IsNum(row[k])
    THEN [error |-> "integrity", loans |-> tbl]
    ELSE [error |-> "none", loans |-> Append(tbl, row)]

(***************************************************************************)
(* HTTP responses                                                          *)
(***************************************************************************)
NotFound == [status |-> 404, body |-> [kind |-> "detail", detail |-> "Loan not found"]]
Unprocessable(errs) == [status |-> 422, body |-> [kind |-> "errors", fields |-> errs]]
ServerError == [status |-> 500, body |-> [kind |-> "text"]]
LoanJson(status, row) ==
    IF LoanResponseOk(row)
    THEN [status |-> status, body |-> [kind |-> "loan", loan |-> row]]
    ELSE ServerError

(***************************************************************************)
(* app/main.py: each handler maps the table and its arguments to the new   *)
(* table and the response                                                  *)
(***************************************************************************)
read_root(tbl) ==
    [loans |-> tbl, resp |-> [status |-> 200, body |-> [kind |-> "message"]]]

\* create_loan without db.add / db.commit
create_loan_unsaved(tbl, p, newid) ==
    IF LoanCreateErrors(p) # {}
    THEN [loans |-> tbl, resp |-> Unprocessable(LoanCreateErrors(p))]
    ELSE [loans |-> tbl,
          resp |-> LoanJson(201, [k \in Columns |->
                                    IF k = "id" THEN Num(newid) ELSE p[k]])]

create_loan(tbl, p, newid) ==
    IF LoanCreateErrors(p) # {}
    THEN [loans |-> tbl, resp |-> Unprocessable(LoanCreateErrors(p))]
    ELSE LET loan_dict == LoanCreateDump(p)
             db_loan == [k \in Columns |->
                            IF k \in DOMAIN loan_dict THEN loan_dict[k] ELSE Num(newid)]
             ins == Insert(tbl, db_loan)
         IN  IF ins.error # "none"
             THEN [loans |-> tbl, resp |-> ServerError]
             ELSE [loans |-> ins.loans,
                   resp |-> LoanJson(201, RowOf(ins.loans, db_loan["id"].v))]

get_loan(tbl, loan_id) ==
    IF QueryFirst(tbl, loan_id) = 0
    THEN [loans |-> tbl, resp |-> NotFound]
    ELSE [loans |-> tbl, resp |-> LoanJson(200, RowOf(tbl, loan_id))]

update_loan(tbl, loan_id, p) ==
    IF LoanUpdateErrors(p) # {}
    THEN [loans |-> tbl, resp |-> Unprocessable(LoanUpdateErrors(p))]
    ELSE IF QueryFirst(tbl, loan_id) = 0
    THEN [loans |-> tbl, resp |-> NotFound]
    ELSE LET loaded == RowOf(tbl, loan_id)
             db_loan == SetAttrs(loaded, LoanUpdateDump(p))
             fl == Flush(tbl, loaded, db_loan)
         IN  IF fl.error # "none"
             THEN [loans |-> tbl, resp |-> ServerError]
             ELSE [loans |-> fl.loans,
                   resp |-> LoanJson(200, RowOf(fl.loans, db_loan["id"].v))]

DefaultSkip == 0
DefaultLimit == 100

\* the list sliced rows[skip:limit]: limit taken as the end position
list_loans_slice(tbl, skip, limit) ==
    LET s == IF IsNum(skip) THEN skip.v ELSE DefaultSkip
        l == IF IsNum(limit) THEN limit.v ELSE DefaultLimit
    IN  [loans |-> tbl,
         resp |-> [status |-> 200,
                   body |-> [kind |-> "list",
                             items |-> SubSeq(Scan(tbl), s + 1, Min2(l, Len(tbl)))]]]

\* query(Loan).offset(skip).limit(limit).all()
list_loans(tbl, skip, limit) ==
    LET s == IF IsNum(skip) THEN skip.v ELSE DefaultSkip
        l == IF IsNum(limit) THEN limit.v ELSE DefaultLimit
    IN  [loans |-> tbl,
         resp |-> [status |-> 200,
                   body |-> [kind |-> "list",
                             items |-> SubSeq(Scan(tbl), s + 1, Min2(s + l, Len(tbl)))]]]

\* delete_loan without the None check
delete_loan_unchecked(tbl, loan_id) ==
    [loans |-> SelectSeq(tbl, LAMBDA r : r["id"] # Num(loan_id)),
     resp |-> [status |-> 204, body |-> [kind |-> "empty"]]]

\* delete_loan without db.commit
delete_loan_uncommitted(tbl, loan_id) ==
    IF QueryFirst(tbl, loan_id) = 0
    THEN [loans |-> tbl, resp |-> NotFound]
    ELSE [loans |-> tbl, resp |-> [status |-> 204, body |-> [kind |-> "empty"]]]

delete_loan(tbl, loan_id) ==
    IF QueryFirst(tbl, loan_id) = 0
    THEN [loans |-> tbl, resp |-> NotFound]
    ELSE [loans |-> SelectSeq(tbl, LAMBDA r : r["id"] # Num(loan_id)),
          resp |-> [status |-> 204, body |-> [kind |-> "empty"]]]

(***************************************************************************)
(* client/loan_client.py                                                   *)
(***************************************************************************)
NoCall == [kind |-> "none"]

\* LoanClient._handle_response: raise_for_status(), then response.json()
handle_response(response) ==
    IF response.status >= 400
    THEN IF response.body.kind \in {"detail", "errors"}
         THEN [kind |-> "raise", type |-> "LoanClientError", detail |-> response.body]
         ELSE IF response.body.kind = "empty"
         THEN [kind |-> "raise", type |-> "LoanClientError", detail |-> response.body]
         ELSE [kind |-> "raise", type |-> "JSONDecodeError", detail |-> response.body]
    ELSE IF response.body.kind \in {"empty", "text"}
         THEN [kind |-> "raise", type |-> "LoanClientError", detail |-> response.body]
         ELSE [kind |-> "return", value |-> response.body]

\* session.get/post/put(..., timeout=self.timeout) when no response arrives
transport_error(net) ==
    [kind |-> "raise",
     type |-> IF net = "refused" THEN "ConnectionError" ELSE "Timeout",
     detail |-> [kind |-> "transport"]]

Net == {"ok", "refused", "timeout"}

\* LoanClient.create_loan: the four arguments, every key present
ClientCreateArgs ==
    [amount : {Num(n) : n \in AmountIn}, interest_rate : {Num(n) : n \in RateIn},
     length_months : {Num(n) : n \in MonthsIn}, monthly_payment : {Num(n) : n \in PaymentIn}]

\* LoanClient.update_loan: each argument a number or None (the default)
ClientUpdateArgs ==
    [amount : {Null} \cup {Num(n) : n \in AmountIn},
     interest_rate : {Null} \cup {Num(n) : n \in RateIn},
     length_months : {Null} \cup {Num(n) : n \in MonthsIn},
     monthly_payment : {Null} \cup {Num(n) : n \in PaymentIn}]

create_payload(a) == [k \in Columns |-> IF k = "id" THEN Unset ELSE a[k]]

\* payload = {}; if amount is not None: payload["amount"] = amount; ...
update_payload(a) ==
    [k \in Columns |-> IF k = "id" \/ a[k] = Null THEN Unset ELSE a[k]]

(***************************************************************************)
(* Requests                                                                *)
(***************************************************************************)
Request(op, id, body, skip, limit) ==
    [op |-> op, id |-> id, body |-> body, skip |-> skip, limit |-> limit]

NoReq == Request("none", 0, NoPayload, Unset, Unset)
NoResp == [status |-> 0, body |-> [kind |-> "none"]]

ReqIds == 1..(MaxId + 1)
PageIn == {Unset} \cup {Num(n) : n \in 0..MaxPage}

\* the handler that the route of r dispatches to
Handle(tbl, r, newid) ==
    CASE r.op = "root" -> read_root(tbl)
      [] r.op = "create" -> create_loan(tbl, r.body, newid)
      [] r.op = "get" -> get_loan(tbl, r.id)
      [] r.op = "update" -> update_loan(tbl, r.id, r.body)
      [] r.op = "list" -> list_loans(tbl, r.skip, r.limit)
      [] r.op = "delete" -> delete_loan(tbl, r.id)

\* a request sent straight to the HTTP surface
Serve(r, newid) ==
    /\ req' = r
    /\ loans' = Handle(loans, r, newid).loans
    /\ resp' = Handle(loans, r, newid).resp
    /\ cli' = NoCall
    /\ UNCHANGED txn

\* a request sent by a LoanClient method
Call(r, newid) ==
    /\ req' = r
    /\ \E net \in Net :
          IF net = "ok"
          THEN /\ loans' = Handle(loans, r, newid).loans
               /\ resp' = Handle(loans, r, newid).resp
               /\ cli' = handle_response(Handle(loans, r, newid).resp)
          ELSE /\ loans' = loans
               /\ resp' = NoResp
               /\ cli' = transport_error(net)
    /\ UNCHANGED txn

\* a create is given a fresh key by the store only when it inserts
CreateIds(p) == IF LoanCreateErrors(p) # {} THEN {0} ELSE NewIds(loans)

HttpRoot ==
    /\ req = NoReq
    /\ Serve(Request("root", 0, NoPayload, Unset, Unset), 0)
HttpCreate ==
    /\ req = NoReq
    /\ \E p \in Payloads : \E newid \in CreateIds(p) :
        Serve(Request("create", 0, p, Unset, Unset), newid)
HttpGet ==
    /\ req = NoReq
    /\ \E i \in ReqIds : Serve(Request("get", i, NoPayload, Unset, Unset), 0)
HttpUpdate ==
    /\ req = NoReq
    /\ \E i \in ReqIds : \E p \in Payloads :
        Serve(Request("update", i, p, Unset, Unset), 0)
HttpList ==
    /\ req = NoReq
    /\ \E s \in PageIn : \E l \in PageIn :
        Serve(Request("list", 0, NoPayload, s, l), 0)
HttpDelete ==
    /\ req = NoReq
    /\ \E i \in ReqIds : Serve(Request("delete", i, NoPayload, Unset, Unset), 0)

ClientHealth ==
    /\ req = NoReq
    /\ Call(Request("root", 0, NoPayload, Unset, Unset), 0)
ClientCreate ==
    /\ req = NoReq
    /\ \E a \in ClientCreateArgs : \E newid \in CreateIds(create_payload(a)) :
        Call(Request("create", 0, create_payload(a), Unset, Unset), newid)
ClientGet ==
    /\ req = NoReq
    /\ \E i \in ReqIds : Call(Request("get", i, NoPayload, Unset, Unset), 0)
ClientUpdate ==
    /\ req = NoReq
    /\ \E i \in ReqIds : \E a \in ClientUpdateArgs :
        Call(Request("update", i, update_payload(a), Unset, Unset), 0)
ClientList ==
    /\ req = NoReq
    /\ \E s \in 0..MaxPage : \E l \in (0..MaxPage) \cup {DefaultLimit} :
        Call(Request("list", 0, NoPayload, Num(s), Num(l)), 0)

\* the response is sent and the request's session closed
Deliver ==
    /\ req # NoReq
    /\ req' = NoReq
    /\ resp' = NoResp
    /\ cli' = NoCall
    /\ UNCHANGED <<loans, txn>>

NoTxn == <<>>

Init ==
    /\ loans = <<>>
    /\ req = NoReq
    /\ resp = NoResp
    /\ cli = NoCall
    /\ txn = NoTxn

Next ==
    \/ HttpRoot
    \/ HttpCreate
    \/ HttpGet
    \/ HttpUpdate
    \/ HttpList
    \/ HttpDelete
    \/ ClientHealth
    \/ ClientCreate
    \/ ClientGet
    \/ ClientUpdate
    \/ ClientList
    \/ Deliver

Spec == Init /\ [][Next]_vars

(***************************************************************************)
(* Two update requests on the same row, each in its own session:           *)
(* update_loan step by step (query, setattr + commit, refresh)             *)
(***************************************************************************)
Reqs == {1, 2}

\* bodies that passed LoanUpdate and name numbers only
ConcBodies ==
    {p \in Payloads : /\ LoanUpdateErrors(p) = {}
                      /\ \A k \in Columns : p[k] # Null
                      /\ p["id"] = Unset}

ValidRows ==
    {r \in [id : {Num(1)}, amount : {Num(n) : n \in AmountIn},
            interest_rate : {Num(n) : n \in RateIn},
            length_months : {Num(n) : n \in MonthsIn},
            monthly_payment : {Num(n) : n \in PaymentIn}] :
        LoanResponseOk(r)}

Session(p) ==
    [pc |-> "query", id |-> 1, body |-> p, loaded |-> [k \in Columns |-> Null],
     resp |-> NoResp]

InitConc ==
    /\ \E r \in ValidRows : \E p1 \in ConcBodies : \E p2 \in ConcBodies :
          /\ loans = <<r>>
          /\ txn = [before |-> r, order |-> <<>>,
                    s |-> [q \in Reqs |-> Session(IF q = 1 THEN p1 ELSE p2)]]
    /\ req = NoReq
    /\ resp = NoResp
    /\ cli = NoCall

\* db_loan = db.query(models.Loan).filter(models.Loan.id == loan_id).first()
ConcQuery(q) ==
    /\ txn.s[q].pc = "query"
    /\ IF QueryFirst(loans, txn.s[q].id) = 0
       THEN txn' = [txn EXCEPT !.s[q].pc = "done", !.s[q].resp = NotFound]
       ELSE txn' = [txn EXCEPT !.s[q].pc = "commit",
                               !.s[q].loaded = RowOf(loans, txn.s[q].id)]
    /\ UNCHANGED <<loans, req, resp, cli>>

\* the setattr loop, then db.commit()
ConcCommit(q) ==
    /\ txn.s[q].pc = "commit"
    /\ LET loaded == txn.s[q].loaded
           db_loan == SetAttrs(loaded, LoanUpdateDump(txn.s[q].body))
           fl == Flush(loans, loaded, db_loan)
       IN  IF fl.error # "none"
           THEN /\ txn' = [txn EXCEPT !.s[q].pc = "done", !.s[q].resp = ServerError]
                /\ loans' = loans
           ELSE /\ txn' = [txn EXCEPT !.s[q].pc = "refresh",
                                      !.order = Append(txn.order, q)]
                /\ loans' = fl.loans
    /\ UNCHANGED <<req, resp, cli>>

\* db.refresh(db_loan); return db_loan
ConcRefresh(q) ==
    /\ txn.s[q].pc = "refresh"
    /\ txn' = [txn EXCEPT !.s[q].pc = "done",
                          !.s[q].resp = IF QueryFirst(loans, txn.s[q].id) = 0
                                        THEN ServerError
                                        ELSE LoanJson(200, RowOf(loans, txn.s[q].id))]
    /\ UNCHANGED <<loans, req, resp, cli>>

NextConc ==
    \/ \E q \in Reqs : ConcQuery(q)
    \/ \E q \in Reqs : ConcCommit(q)
    \/ \E q \in Reqs : ConcRefresh(q)

SpecConc == InitConc /\ [][NextConc]_vars

(***************************************************************************)
(* The claims                                                              *)
(***************************************************************************)
\* the bound a claim states for each business field
Violates(k, n) ==
    CASE k = "amount" -> n <= 0
      [] k = "interest_rate" -> n < 0
      [] k = "length_months" -> n <= 0
      [] k = "monthly_payment" -> n <= 0

\* a body in which no present field violates its bound
ValidBody(p) == \A k \in Fields : IsNum(p[k]) => ~Violates(k, p[k].v)

\* a creation input: four numbers within their bounds
ValidCreation(p) == \A k \in Fields : IsNum(p[k]) /\ ~Violates(k, p[k].v)

\* this step is the server answering a request of one of the operations ops
Answers(ops) == req = NoReq /\ req'.op \in ops /\ resp' # NoResp

RowsWithId(tbl, i) == {j \in 1..Len(tbl) : tbl[j]["id"] = Num(i)}

\* C1: a create with four in-bound numbers answers 201 with a record that carries
\* the input's four values and an id held by exactly one stored row, and get_loan
\* on that id, applied to the state create left, answers 200 with the same record.
C1_CreateThenGet ==
    (req.op = "create" /\ resp # NoResp /\ ValidCreation(req.body)) =>
        /\ resp.status = 201
        /\ resp.body.kind = "loan"
        /\ IsNum(resp.body.loan["id"])
        /\ Cardinality(RowsWithId(loans, resp.body.loan["id"].v)) = 1
        /\ \A k \in Fields : resp.body.loan[k] = req.body[k]
        /\ get_loan(loans, resp.body.loan["id"].v).resp =
               [status |-> 200, body |-> resp.body]
        /\ get_loan(loans, resp.body.loan["id"].v).loans = loans

C1_Witness ==
    /\ req.op = "create"
    /\ resp.status = 201
    /\ Len(loans) = 2
    /\ req.body["id"] # Unset
    /\ cli = NoCall

\* C2: a create or update whose body holds a number outside its field's bound is
\* answered 422 and leaves the table as it was, whatever the other fields hold.
C2_ValidationFailsClosed ==
    [][(/\ Answers({"create", "update"})
        /\ \E k \in Fields : IsNum(req'.body[k]) /\ Violates(k, req'.body[k].v))
         => (resp'.status = 422 /\ loans' = loans)]_vars

C2_Witness ==
    /\ req.op = "update"
    /\ resp.status = 422
    /\ req.id \in Ids(loans)
    /\ req.body["amount"] = Num(0)
    /\ IsNum(req.body["interest_rate"])
    /\ ~Violates("interest_rate", req.body["interest_rate"].v)
    /\ req.body["interest_rate"] # RowOf(loans, req.id)["interest_rate"]

\* C3: an update of an existing id whose body violates no bound answers 200, sets
\* exactly the fields the body names to the values it supplies, leaves the other
\* fields, the id and every other row as they were, and returns what get_loan
\* then returns.
C3_PartialUpdate ==
    [][(/\ Answers({"update"})
        /\ req'.id \in Ids(loans)
        /\ ValidBody(req'.body))
         => (/\ resp'.status = 200
             /\ Len(loans') = Len(loans)
             /\ \A j \in 1..Len(loans) :
                   IF loans[j]["id"] = Num(req'.id)
                   THEN /\ loans'[j]["id"] = loans[j]["id"]
                        /\ \A k \in Fields :
                              loans'[j][k] = IF req'.body[k] # Unset
                                             THEN req'.body[k] ELSE loans[j][k]
                   ELSE loans'[j] = loans[j]
             /\ get_loan(loans', req'.id).resp = resp')]_vars

\* C4: get, update (with a body that violates no bound) and delete of an id no row
\* has answer 404 "Loan not found" and leave the table as it was.
C4_NotFound ==
    [][(/\ Answers({"get", "update", "delete"})
        /\ req'.id \notin Ids(loans)
        /\ (req'.op = "update" => ValidBody(req'.body)))
         => (/\ resp'.status = 404
             /\ resp'.body = [kind |-> "detail", detail |-> "Loan not found"]
             /\ loans' = loans)]_vars

C4_Witness ==
    /\ req.op \in {"update", "delete"}
    /\ resp.status = 404
    /\ req.id \notin Ids(loans)
    /\ Len(loans) = 1
    /\ req.id < loans[1]["id"].v

\* C5: a delete of an existing id answers 204 with an empty body and removes that
\* row and no other; an id that no row has stays without a row in every step that
\* is not a create, and every get, update and delete of it answers 404.
C5_DeleteThenNotFound ==
    [][/\ (Answers({"delete"}) /\ req'.id \in Ids(loans))
           => (/\ resp' = [status |-> 204, body |-> [kind |-> "empty"]]
               /\ Len(loans') = Len(loans) - 1
               /\ Ids(loans') = Ids(loans) \ {req'.id}
               /\ \A j \in 1..Len(loans) :
                     loans[j]["id"] # Num(req'.id)
                        => \E m \in 1..Len(loans') : loans'[m] = loans[j])
       /\ \A i \in ReqIds :
             (i \notin Ids(loans) /\ req'.op # "create")
               => (/\ i \notin Ids(loans')
                   /\ (Answers({"get", "update", "delete"}) /\ req'.id = i
                       /\ (req'.op = "update" => ValidBody(req'.body)))
                        => resp'.status = 404)]_vars

C5_Witness ==
    /\ req.op = "delete"
    /\ resp.status = 204
    /\ Len(loans) = 1
    /\ loans[1]["id"].v # req.id

\* C6: list_loans(skip, limit), skip and limit defaulting to 0 and 100, answers
\* 200 with the rows at positions skip+1 .. skip+min(limit, max(0, n-skip)) of
\* the table in ascending id order, none repeated, and leaves the table as it was.
C6_ListWindow ==
    [][Answers({"list"})
         => LET s == IF req'.skip = Unset THEN 0 ELSE req'.skip.v
                l == IF req'.limit = Unset THEN 100 ELSE req'.limit.v
                n == Len(loans)
                rest == IF n - s > 0 THEN n - s ELSE 0
                want == IF l < rest THEN l ELSE rest
                items == resp'.body.items
            IN  /\ resp'.status = 200
                /\ Len(items) = want
                /\ \A k \in 1..want : items[k] = loans[s + k]
                /\ \A a, b \in 1..want : a < b => items[a]["id"].v < items[b]["id"].v
                /\ loans' = loans]_vars

C6_Witness ==
    /\ req.op = "list"
    /\ req.skip = Num(1)
    /\ req.limit = Num(2)
    /\ Len(loans) = 2
    /\ Len(resp.body.items) = 1

\* C7: every failure of a client method is raised as LoanClientError: a non-2xx
\* response with the server's detail, an unreachable server with the same type.
C7_UniformClientError ==
    (cli # NoCall /\ (resp = NoResp \/ resp.status >= 300)) =>
        /\ cli.kind = "raise"
        /\ cli.type = "LoanClientError"
        /\ resp # NoResp => cli.detail = resp.body

\* C8: no two rows share an id; an update keeps every row's id, also when its body
\* carries an id key; a create whose body carries an id key is still answered 201
\* with an id no row had.
C8_IdUniqueImmutable ==
    [][/\ \A a, b \in 1..Len(loans') : a # b => loans'[a]["id"] # loans'[b]["id"]
       /\ Answers({"update"})
            => (/\ Len(loans') = Len(loans)
                /\ \A j \in 1..Len(loans) : loans'[j]["id"] = loans[j]["id"])
       /\ (Answers({"create"}) /\ ValidCreation(req'.body))
            => (/\ resp'.status = 201
                /\ resp'.body.loan["id"].v \notin Ids(loans)
                /\ Ids(loans') = Ids(loans) \cup {resp'.body.loan["id"].v})]_vars

C8_Witness ==
    /\ req.op = "update"
    /\ resp.status = 200
    /\ IsNum(req.body["id"])
    /\ req.body["id"].v # req.id
    /\ req.body["id"].v \notin Ids(loans)

\* C9: every stored row holds a number in each business field, within the field's
\* bound, also after an update whose body names a field with null.
C9_StoredWithinBounds ==
    \A j \in 1..Len(loans) : \A k \in Fields :
        IsNum(loans[j][k]) /\ ~Violates(k, loans[j][k].v)

C9_Witness ==
    /\ req.op = "update"
    /\ req.id \in Ids(loans)
    /\ req.body["amount"] = Null
    /\ IsNum(req.body["interest_rate"])
    /\ resp.status = 500

\* the requests whose body names field k, and the last of them to commit
Suppliers(k) == {q \in Reqs : txn.s[q].body[k] # Unset}
LastSupplier(k) ==
    LET at == {n \in 1..Len(txn.order) : txn.order[n] \in Suppliers(k)}
    IN  txn.order[CHOOSE n \in at : \A m \in at : m <= n]

\* C10: when two updates of the same row have both returned, both answered 200
\* and each field holds the value of the last request to commit among those that
\* supplied it, or the value it had before if neither did; and at no time does a
\* field hold a value that neither request supplied and that it did not have.
C10_LastWriterWins ==
    /\ \A k \in Fields :
          \/ loans[1][k] = txn.before[k]
          \/ \E q \in Reqs : loans[1][k] = txn.s[q].body[k]
    /\ (\A q \in Reqs : txn.s[q].pc = "done") =>
          /\ \A q \in Reqs : txn.s[q].resp.status = 200
          /\ Len(txn.order) = 2
          /\ \A k \in Fields :
                loans[1][k] = IF Suppliers(k) = {} THEN txn.before[k]
                              ELSE txn.s[LastSupplier(k)].body[k]

====
